---- MODULE Spec2Model ----
(***************************************************************************)
(* Sub0Pub: the per-type Broker (subscription table, publish fan-out) of   *)
(* src/include/sub0pub/sub0pub.hpp and the binary stream framing of the    *)
(* same header (BinaryWriter / BinaryReader / DefaultSerialisation).       *)
(*                                                                         *)
(* A failed assert() of the source ends the process: the model records it  *)
(* in `error` and no action is enabled afterwards.                         *)
(***************************************************************************)
EXTENDS Integers, Sequences, FiniteSets, TLC

(***************************************************************************)
(* Program constants and model bounds                                      *)
(***************************************************************************)

\* Broker<Data>::cMaxSubscriptions
cMaxSubscriptions == 8

\* Number of Subscribe<Data> objects a run with publish calls constructs
\* (each a new object).
MaxHandles == 5

\* Number of Subscribe<Data> objects a run without publish calls constructs:
\* one more than the table holds.
RegistryHandles == cMaxSubscriptions + 1

\* Number of publish calls between two changes of the subscription table.
MaxPublishes == 2

\* Number of receive callbacks of one publish call that change the table.
MaxCallbackOps == 2

\* The published Data values.
DataValues == {1, 2}

nullptr == 0

\* Number of frames the writer emits in a run.
MaxFrames == 2

\* Most bytes the byte source delivers during one read() call.
MaxChunk == 16

\* The payload types: sizeof(Data) of each, in bytes.
Types == {"A", "B"}
SizeOf(T) == IF T = "A" THEN 1 ELSE 2

\* The payload types whose buffers a run that only registers buffers uses,
\* and the largest type id Broker<Data>::typeId() gives one of them.
BufferTypes == {"A", "B", "C", "D"}
MaxTypeId == 4

\* BinaryReader::cMaxDataBufferCount, and the type ids of the payload types
\* (numbered in the order their buffers are registered) of a run that
\* registers more buffers than that: all 12345, ascending, or descending.
cMaxDataBufferCount == 64
CapacityTypes == 1..(cMaxDataBufferCount + 1)
CapacityTypeIds ==
    {[T \in CapacityTypes |-> 12345],
     [T \in CapacityTypes |-> T],
     [T \in CapacityTypes |-> (cMaxDataBufferCount + 2) - T]}

\* The typeId and typeName arguments endpoints are constructed with: 0 is
\* the default argument (no id, null name); names are numbered.
TypeIdArgs == {0, 100, 200}
TypeNameArgs == {0, 1, 2}

\* The subscriber objects of the forwarded payload types; none of them
\* overrides filter.
ForwardSubscribers == {1, 2}

\* The stream reads of one update() call of PublishStream are counted up to
\* this number, then from 0 again.
MaxReads == 3

\* Byte values the payloads are made of.
ByteValues == {0, 7}

\* The values of a type, as its object representation (sizeof(Data) bytes).
ValuesOf(T) == [1..SizeOf(T) -> ByteValues]

\* The value of type T the runs with subscribers of several types send.
ForwardValue(T) == [k \in 1..SizeOf(T) |-> 7]

\* The type ids the build gives the types: 12345 for every type when
\* SUB0PUB_TYPEIDNAME is off, Broker<Data>::typeId() (set by the user) when on.
TypeIdChoices ==
    {[T \in Types |-> 12345],
     [T \in Types |-> IF T = "A" THEN 200 ELSE 100]}

VARIABLES
    state_,         \* Broker<Data>::state_ : [subscriptionCount, subscriptions]
    error,          \* "none", or the assertion that ended the process
    nextHandle,     \* identity of the next Subscribe<Data> object constructed
    destroyed,      \* the subscribers whose destructor has run
    pc,             \* "idle" | "publish" (inside Broker::publish) | "done" (it returned)
    iSubscription,  \* loop index of Broker::publish
    data,           \* argument of the publish call in progress
    calls,          \* filter/receive calls of the current publish call, in order
    startSubs,      \* subscribers registered when the current publish call started
    deadAtStart,    \* subscribers whose destructor had run when it started
    removedNow,     \* << subscriber, number of calls made so far >> for each subscriber
                    \* unsubscribed by a callback of the current publish call
    addedNow,       \* subscribers registered by callbacks of the current publish call
    publishCount,   \* publish calls completed since the table last changed
    receiveCount,   \* receive calls made by those publish calls
    lastOp,         \* the last Broker operation and what it found, for the claims
    hasPrefix,      \* the protocol's Prefix_t is not void
    typeIdOf,       \* the type id of each payload type
    buffer_,        \* ForwardPublish<Data>::buffer_ of each payload type
    reader,         \* BinaryReader: state_, currentBuffer_, header_, postfix_
    bufferRegistry_,\* BinaryReader::bufferRegistry_ up to bufferRegistryEnd_
    wire,           \* bytes written to the stream and not yet read
    written,        \* the frames written, in order: [type, value]
    corrupted,      \* the frames (by position) whose postfix byte was changed in transit
    notified,       \* the onBufferComplete calls, in order: [type, value]
    readerError,    \* "none", or the assertion of the reader that ended the process
    lastRead,       \* the last read() call: what it returned, how many frames it
                    \* completed, whether the source had nothing for it, whether
                    \* any call was made (polled), whether it started between
                    \* frames with two complete frames delivered (burst)
    typeKey,        \* Broker<Data>::state_.typeId and .typeName (0 when not set)
    stateOf,        \* Broker<T>::state_ of each payload type T
    delivered,      \* the receive calls on the subscribers of all payload types,
                    \* in order: [type, subscriber, value]
    publishStream   \* PublishStream (src/TempPublishStream.cpp): its members, its
                    \* position in update(), the stream it reads and what was
                    \* written to the other end of it

brokerVars == << state_, error, nextHandle, destroyed, pc, iSubscription, data, calls, startSubs,
                 deadAtStart, removedNow, addedNow, publishCount, receiveCount, lastOp >>

wireVars == << hasPrefix, typeIdOf, buffer_, reader, bufferRegistry_, wire,
              written, corrupted, notified, readerError, lastRead >>

typeVars == << typeKey, stateOf, delivered, publishStream >>

vars == << brokerVars, wireVars, typeVars >>

(***************************************************************************)
(* Broker<Data>                                                            *)
(***************************************************************************)

\* The registered subscribers, in table order.
Registered(st) == [k \in 1..st.subscriptionCount |-> st.subscriptions[k]]

SeqToSet(s) == {s[k] : k \in 1..Len(s)}

\* Broker<Data>::State::State(): count 0, table value-initialised.
StateInit == [subscriptionCount |-> 0,
              subscriptions |-> [k \in 1..cMaxSubscriptions |-> nullptr]]

\* The subscriber classes that override Subscribe<Data>::filter.
OverridesFilter(subscriber) == subscriber % 3 = 0

\* Subscribe<Data>::filter: the base class accepts everything; the
\* overriding classes accept even values only.
filter(subscriber, d) == IF OverridesFilter(subscriber) THEN d % 2 = 0 ELSE TRUE

ShouldReceive_Always(subscription, d) == TRUE

\* Broker::publish: if ( subscription->filter(data) ).
ShouldReceive(subscription, d) == filter(subscription, d)

onSubscriptionOk_OffByOne(subscriptionCount, subscriptionCapacity) ==
    subscriptionCount <= subscriptionCapacity

\* CheckT::onSubscription: assert( subscriptionCount < subscriptionCapacity ).
onSubscriptionOk(subscriptionCount, subscriptionCapacity) ==
    subscriptionCount < subscriptionCapacity

BrokerSubscribe_Unchecked(st, subscriber) ==
    IF st.subscriptionCount < cMaxSubscriptions
    THEN [st |-> [subscriptionCount |-> st.subscriptionCount + 1,
                  subscriptions |-> [st.subscriptions EXCEPT ![st.subscriptionCount + 1] = subscriber]],
          err |-> "none"]
    ELSE [st |-> [st EXCEPT !.subscriptions[cMaxSubscriptions] = subscriber], err |-> "none"]

\* Broker::Broker(Subscribe<Data>*): the table after the constructor; the
\* result carries the failed assertion instead when the check aborts.
BrokerSubscribe(st, subscriber) ==
    IF onSubscriptionOk(st.subscriptionCount, cMaxSubscriptions)
    THEN [st |-> [subscriptionCount |-> st.subscriptionCount + 1,
                  subscriptions |-> [st.subscriptions EXCEPT ![st.subscriptionCount + 1] = subscriber]],
          err |-> "none"]
    ELSE [st |-> st, err |-> "CapacityExceeded"]

StdRemove_SwapLast(subscriptions, count, value) ==
    LET hits == {k \in 1..count : subscriptions[k] = value}
    IN IF hits = {}
       THEN [subscriptions |-> subscriptions, pend |-> count]
       ELSE LET h == CHOOSE k \in hits : TRUE
            IN [subscriptions |-> [subscriptions EXCEPT ![h] = subscriptions[count]],
                pend |-> count - 1]

\* std::remove(iBegin, iEnd, value) over the first `count` slots: the kept
\* elements move to the front in order; the slots behind them keep their
\* old content. pend is the index of the returned iterator.
StdRemove(subscriptions, count, value) ==
    LET kept == SelectSeq([k \in 1..count |-> subscriptions[k]], LAMBDA x : x # value)
    IN [subscriptions |-> [k \in 1..cMaxSubscriptions |->
                              IF k <= Len(kept) THEN kept[k] ELSE subscriptions[k]],
        pend |-> Len(kept)]

BrokerUnsubscribe_CountOnly(st, subscriber) ==
    IF \E k \in 1..st.subscriptionCount : st.subscriptions[k] = subscriber
    THEN [st |-> [st EXCEPT !.subscriptionCount = st.subscriptionCount - 1], err |-> "none"]
    ELSE [st |-> st, err |-> "NotSubscribed"]

BrokerUnsubscribe_NoAssert(st, subscriber) ==
    LET r == StdRemove(st.subscriptions, st.subscriptionCount, subscriber)
    IN [st |-> [subscriptionCount |-> st.subscriptionCount - 1,
                subscriptions |-> r.subscriptions],
        err |-> "none"]

\* Broker::unsubscribe(Subscribe<Data>*): assert(distance(iEnd, iPend) == -1),
\* then --subscriptionCount.
BrokerUnsubscribe(st, subscriber) ==
    LET r == StdRemove(st.subscriptions, st.subscriptionCount, subscriber)
    IN IF r.pend - st.subscriptionCount = -1
       THEN [st |-> [subscriptionCount |-> st.subscriptionCount - 1,
                     subscriptions |-> r.subscriptions],
             err |-> "none"]
       ELSE [st |-> [subscriptionCount |-> st.subscriptionCount,
                     subscriptions |-> r.subscriptions],
             err |-> "NotSubscribed"]

setDataName_Overwrite(key, typeId, typeName) ==
    [key |-> [typeId |-> IF typeId # 0 THEN typeId ELSE key.typeId,
              typeName |-> IF typeName # 0 THEN typeName ELSE key.typeName],
     err |-> "none"]

\* Broker::setDataName(typeId, typeName): the stored id and name afterwards,
\* with the assertion that failed, if one did. The id is stored before the
\* name is looked at.
setDataName(key, typeId, typeName) ==
    IF typeId # 0 /\ ~(key.typeId = 0 \/ key.typeId = typeId)
    THEN [key |-> key, err |-> "TypeIdConflict"]
    ELSE LET key1 == IF typeId # 0 THEN [key EXCEPT !.typeId = typeId] ELSE key
         IN IF typeName # 0 /\ ~(key1.typeName = 0 \/ key1.typeName = typeName)
            THEN [key |-> key1, err |-> "TypeNameConflict"]
            ELSE [key |-> IF typeName # 0 THEN [key1 EXCEPT !.typeName = typeName] ELSE key1,
                  err |-> "none"]

(***************************************************************************)
(* Operations on the Broker                                                *)
(***************************************************************************)

Idle == pc \in {"idle", "done"}

\* The record of the publish call in progress, cleared when the table is
\* changed from outside a publish call.
ClearDispatch ==
    /\ pc' = "idle"
    /\ iSubscription' = 0
    /\ data' = 1
    /\ calls' = << >>
    /\ startSubs' = << >>
    /\ deadAtStart' = {}
    /\ removedNow' = {}
    /\ addedNow' = {}
    /\ publishCount' = 0
    /\ receiveCount' = 0

\* Subscribe<Data>::Subscribe(): a new subscriber object registers itself.
Construct(limit) ==
    /\ error = "none"
    /\ Idle
    /\ nextHandle <= limit
    /\ LET r == BrokerSubscribe(state_, nextHandle)
       IN /\ state_' = r.st
          /\ error' = r.err
          /\ nextHandle' = IF r.err = "none" THEN nextHandle + 1 ELSE nextHandle
    /\ lastOp' = [op |-> "subscribe", arg |-> nextHandle]
    /\ UNCHANGED destroyed
    /\ ClearDispatch
    /\ UNCHANGED << wireVars, typeVars >>

\* Publish<Data>::Publish(typeId, typeName): Broker(Publish<Data>*, ...)
\* checks the publisher and sets the data name; no publisher is recorded.
ConstructPublish(typeId, typeName) ==
    /\ error = "none"
    /\ Idle
    /\ LET r == setDataName(typeKey, typeId, typeName)
       IN /\ typeKey' = r.key
          /\ error' = r.err
    /\ lastOp' = [op |-> "publisher", arg |-> << typeId, typeName >>]
    /\ UNCHANGED << state_, nextHandle, destroyed >>
    /\ ClearDispatch
    /\ UNCHANGED << wireVars, stateOf, delivered, publishStream >>

\* Subscribe<Data>::Subscribe(typeId, typeName): Broker(Subscribe<Data>*, ...)
\* checks the capacity, sets the data name, then stores the subscriber.
ConstructNamed(limit, typeId, typeName) ==
    /\ error = "none"
    /\ Idle
    /\ nextHandle <= limit
    /\ LET r == BrokerSubscribe(state_, nextHandle)
           n == setDataName(typeKey, typeId, typeName)
       IN IF r.err # "none"
          THEN /\ error' = r.err
               /\ UNCHANGED << state_, typeKey, nextHandle >>
          ELSE IF n.err # "none"
          THEN /\ error' = n.err
               /\ typeKey' = n.key
               /\ UNCHANGED << state_, nextHandle >>
          ELSE /\ state_' = r.st
               /\ typeKey' = n.key
               /\ nextHandle' = nextHandle + 1
               /\ UNCHANGED error
    /\ lastOp' = [op |-> "subscriber", arg |-> << typeId, typeName >>]
    /\ UNCHANGED destroyed
    /\ ClearDispatch
    /\ UNCHANGED << wireVars, stateOf, delivered, publishStream >>

\* Subscribe<Data>::~Subscribe() / Broker::unsubscribe called with any
\* subscriber pointer, registered or not.
Unsubscribe(subscriber) ==
    /\ error = "none"
    /\ Idle
    /\ LET r == BrokerUnsubscribe(state_, subscriber)
       IN /\ state_' = r.st
          /\ error' = r.err
    /\ lastOp' = [op |-> "unsubscribe", arg |-> subscriber]
    /\ destroyed' = destroyed \cup {subscriber}
    /\ UNCHANGED nextHandle
    /\ ClearDispatch
    /\ UNCHANGED << wireVars, typeVars >>

\* Publish<Data>::publish(data) enters Broker::publish.
PublishBegin(d) ==
    /\ error = "none"
    /\ Idle
    /\ publishCount < MaxPublishes
    /\ pc' = "publish"
    /\ iSubscription' = 0
    /\ data' = d
    /\ calls' = << >>
    /\ startSubs' = Registered(state_)
    /\ deadAtStart' = destroyed
    /\ removedNow' = {}
    /\ addedNow' = {}
    /\ lastOp' = [op |-> "publish", arg |-> d]
    /\ UNCHANGED << state_, error, nextHandle, destroyed, publishCount, receiveCount >>
    /\ UNCHANGED << wireVars, typeVars >>

\* What a receive callback may do to the table before it returns.
CallbackOps ==
    {[kind |-> "none", arg |-> 0], [kind |-> "subscribe", arg |-> 0]}
        \cup {[kind |-> "unsubscribe", arg |-> s] : s \in 1..MaxHandles}

\* The table after the callback, with the failed assertion if it aborts.
CallbackEffect(st, cb) ==
    CASE cb.kind = "none" -> [st |-> st, err |-> "none"]
      [] cb.kind = "subscribe" -> BrokerSubscribe(st, nextHandle)
      [] cb.kind = "unsubscribe" -> BrokerUnsubscribe(st, cb.arg)

LoopCondition_SkipLast(i, st) == i + 1 < st.subscriptionCount

LoopCondition_Snapshot(i, st) == i < Len(startSubs)

\* Whether the loop of Broker::publish runs another iteration.
LoopCondition(i, st) == i < st.subscriptionCount

\* The subscriber the iteration invokes.
LoopSubscription(i, st) == st.subscriptions[i + 1]

\* One iteration of the loop of Broker::publish: onReceive's assert, filter,
\* receive, and whatever the receive callback does to the table.
PublishStep ==
    /\ error = "none"
    /\ pc = "publish"
    /\ LoopCondition(iSubscription, state_)
    /\ LET subscription == LoopSubscription(iSubscription, state_)
       IN IF subscription = nullptr
          THEN /\ error' = "NullSubscriber"
               /\ UNCHANGED << state_, nextHandle, destroyed, calls, removedNow, addedNow,
                               receiveCount, iSubscription >>
          ELSE IF ~ShouldReceive(subscription, data)
          THEN /\ calls' = Append(calls, << "filter", subscription >>)
               /\ iSubscription' = iSubscription + 1
               /\ UNCHANGED << state_, error, nextHandle, destroyed, removedNow, addedNow,
                               receiveCount >>
          ELSE \E cb \in CallbackOps :
               /\ cb.kind # "none" =>
                     /\ Cardinality(removedNow) + Cardinality(addedNow) < MaxCallbackOps
                     /\ cb.kind = "subscribe" => nextHandle <= MaxHandles
               /\ LET r == CallbackEffect(state_, cb)
                  IN /\ state_' = r.st
                     /\ error' = r.err
                     /\ nextHandle' = IF cb.kind = "subscribe" /\ r.err = "none"
                                      THEN nextHandle + 1 ELSE nextHandle
                     /\ destroyed' = IF cb.kind = "unsubscribe"
                                     THEN destroyed \cup {cb.arg} ELSE destroyed
                     /\ removedNow' = IF cb.kind = "unsubscribe" /\ r.err = "none"
                                      THEN removedNow \cup {<< cb.arg, Len(calls) + 2 >>}
                                      ELSE removedNow
                     /\ addedNow' = IF cb.kind = "subscribe" /\ r.err = "none"
                                    THEN addedNow \cup {nextHandle} ELSE addedNow
               /\ calls' = calls \o << << "filter", subscription >>,
                                       << "receive", subscription >> >>
               /\ receiveCount' = receiveCount + 1
               /\ iSubscription' = iSubscription + 1
    /\ lastOp' = [op |-> "dispatch", arg |-> iSubscription]
    /\ UNCHANGED << pc, data, startSubs, deadAtStart, publishCount >>
    /\ UNCHANGED << wireVars, typeVars >>

\* Broker::publish returns once the loop condition fails.
PublishEnd ==
    /\ error = "none"
    /\ pc = "publish"
    /\ ~LoopCondition(iSubscription, state_)
    /\ pc' = "done"
    /\ IF removedNow = {} /\ addedNow = {}
       THEN /\ publishCount' = publishCount + 1
            /\ UNCHANGED receiveCount
       ELSE /\ publishCount' = 0
            /\ receiveCount' = 0
    /\ lastOp' = [op |-> "return", arg |-> 0]
    /\ UNCHANGED << state_, error, nextHandle, destroyed, iSubscription, data, calls, startSubs,
                    deadAtStart, removedNow, addedNow >>
    /\ UNCHANGED << wireVars, typeVars >>

(***************************************************************************)
(* DefaultSerialisation: the frame layout                                  *)
(***************************************************************************)

Min(a, b) == IF a <= b THEN a ELSE b

\* A uint32_t as its four bytes in memory (little-endian), and back.
U32Bytes(n) == << n % 256, (n \div 256) % 256, (n \div 65536) % 256, (n \div 16777216) % 256 >>
BytesU32(b) == b[1] + 256 * b[2] + 65536 * b[3] + 16777216 * b[4]

\* utility::FourCC<a,b,c,d>::value
FourCC(a, b, c, d) == (((((d * 256) + c) * 256) + b) * 256) + a

\* DefaultSerialisation::Prefix::magic = FourCC<'S','U','B','0'>
PrefixMagic == FourCC(83, 85, 66, 48)

\* DefaultSerialisation::Postfix::delim = '\n'
PostfixDelim == 10

\* sizeof(Prefix), sizeof(Header), sizeof(Postfix)
PrefixBytes == 4
HeaderBytes == 8
PostfixBytes == 1

\* DefaultSerialisation::Header::Header(const Data&)
Header(T) == [typeId |-> typeIdOf[T], dataBytes |-> SizeOf(T)]

\* The object representation of a Header, and the Header a buffer holds.
HeaderToBytes(h) == U32Bytes(h.typeId) \o U32Bytes(h.dataBytes)
BytesToHeader(b) == [typeId |-> BytesU32(SubSeq(b, 1, 4)), dataBytes |-> BytesU32(SubSeq(b, 5, 8))]

HeaderEqual_TypeIdOnly(lhs, rhs) == lhs.typeId = rhs.typeId

\* Header::operator< (by typeId only) and Header::operator== (both fields).
HeaderLess(lhs, rhs) == lhs.typeId < rhs.typeId
HeaderEqual(lhs, rhs) == lhs.typeId = rhs.typeId /\ lhs.dataBytes = rhs.dataBytes

\* utility::write<Prefix_t>(stream): the bytes of a default-constructed
\* Prefix_t, nothing for void.
WritePrefix == IF hasPrefix THEN U32Bytes(PrefixMagic) ELSE << >>

\* utility::write<Postfix_t>(stream)
WritePostfix == << PostfixDelim >>

WriterWrite_HeaderLast(T, v) == WritePrefix \o v \o HeaderToBytes(Header(T)) \o WritePostfix

\* BinaryWriter::write(stream, data): prefix, header, data, postfix.
WriterWrite(T, v) == WritePrefix \o HeaderToBytes(Header(T)) \o v \o WritePostfix

(***************************************************************************)
(* BinaryReader                                                            *)
(***************************************************************************)

\* A char* into one of the reader's buffers, or the null pointer.
NullPtr == [region |-> "null", type |-> "-", offset |-> 0]
HeaderPtr == [region |-> "header", type |-> "-", offset |-> 0]
PostfixPtr == [region |-> "postfix", type |-> "-", offset |-> 0]
DataPtr(T) == [region |-> "data", type |-> T, offset |-> 0]

\* BufferPublisher{ nullptr, 0U, nullptr }
NullBuffer == [buffer |-> NullPtr, bufferSize |-> 0, bufferPublisher |-> "null"]

\* BinaryReader::BinaryReader(): every member value-initialised.
ReaderInit ==
    [state_ |-> "Prefix",
     currentBuffer_ |-> NullBuffer,
     header_ |-> [k \in 1..HeaderBytes |-> 0],
     postfix_ |-> << PostfixDelim >>]

LowerBound_First(reg, h, first, count) == first

UpperBound_End(reg, h, first, count) == first + count

\* std::lower_bound / std::upper_bound over bufferRegistry_[first+1 .. first+count]
\* ordered by Header::operator<; the result is the 0-based index found.
RECURSIVE LowerBound(_, _, _, _)
LowerBound(reg, h, first, count) ==
    IF count <= 0 THEN first
    ELSE LET step == count \div 2
             it == first + step
         IN IF HeaderLess(reg[it + 1].first, h)
            THEN LowerBound(reg, h, it + 1, count - (step + 1))
            ELSE LowerBound(reg, h, first, step)

RECURSIVE UpperBound(_, _, _, _)
UpperBound(reg, h, first, count) ==
    IF count <= 0 THEN first
    ELSE LET step == count \div 2
             it == first + step
         IN IF ~HeaderLess(h, reg[it + 1].first)
            THEN UpperBound(reg, h, it + 1, count - (step + 1))
            ELSE UpperBound(reg, h, first, step)

RegistryInsert_AtLowerBound(reg, entry) ==
    LET insertionPoint == LowerBound(reg, entry.first, 0, Len(reg))
    IN SubSeq(reg, 1, insertionPoint) \o << entry >> \o SubSeq(reg, insertionPoint + 1, Len(reg))

\* BinaryReader::setBufferPublisher(const HeaderToBufferPublisher&): the new
\* entry goes to the end and is rotated to its upper bound.
RegistryInsert(reg, entry) ==
    LET insertionPoint == UpperBound(reg, entry.first, 0, Len(reg))
    IN SubSeq(reg, 1, insertionPoint) \o << entry >> \o SubSeq(reg, insertionPoint + 1, Len(reg))

findBufferPublisher_Nearest(reg, header) ==
    LET iFind == LowerBound(reg, header, 0, Len(reg))
    IN IF reg = << >> THEN NullBuffer
       ELSE IF iFind # Len(reg) THEN reg[iFind + 1].second ELSE reg[Len(reg)].second

\* BinaryReader::findBufferPublisher(header)
findBufferPublisher(reg, header) ==
    LET iFind == LowerBound(reg, header, 0, Len(reg))
    IN IF iFind # Len(reg) /\ HeaderEqual(reg[iFind + 1].first, header)
       THEN reg[iFind + 1].second
       ELSE NullBuffer

findStateBuffer_FirstEntry(state, rd, reg) ==
    CASE state = "Prefix" -> NullBuffer
      [] state = "Header" -> [buffer |-> HeaderPtr, bufferSize |-> HeaderBytes, bufferPublisher |-> "null"]
      [] state = "Data" -> IF reg = << >> THEN NullBuffer ELSE reg[1].second
      [] state = "Postfix" -> [buffer |-> PostfixPtr, bufferSize |-> PostfixBytes,
                               bufferPublisher |-> rd.currentBuffer_.bufferPublisher]

\* BinaryReader::findStateBuffer(state), read before currentBuffer_ is assigned.
findStateBuffer(state, rd, reg) ==
    CASE state = "Prefix" -> NullBuffer
      [] state = "Header" -> [buffer |-> HeaderPtr, bufferSize |-> HeaderBytes, bufferPublisher |-> "null"]
      [] state = "Data" -> findBufferPublisher(reg, BytesToHeader(rd.header_))
      [] state = "Postfix" -> [buffer |-> PostfixPtr, bufferSize |-> PostfixBytes,
                               bufferPublisher |-> rd.currentBuffer_.bufferPublisher]

checkStateOk_Always(state, rd) == TRUE

\* BinaryReader::checkStateOk(state)
checkStateOk(state, rd) ==
    IF state = "Postfix" THEN rd.postfix_ = << PostfixDelim >> ELSE TRUE

\* The machine a read() call works on; avail is how many bytes the source
\* delivers while the call lasts.
Machine(c) ==
    [reader |-> reader, buffer_ |-> buffer_, wire |-> wire, avail |-> c,
     notified |-> notified, delivered |-> delivered, err |-> "none"]

BrokerOf_Shared(T) == "A"

\* Broker<Data>::state_ is a static member of the class template: one State
\* object for each payload type, named by the type.
BrokerOf(T) == T

onBufferComplete_Silent(m, T) ==
    [m EXCEPT !.notified = Append(m.notified, [type |-> T, value |-> m.buffer_[T]])]

\* Broker<T>::publish(d) with receive callbacks that leave the table alone:
\* the receive calls it makes, in table order.
BrokerPublish(T, st, d) ==
    LET accepting == SelectSeq(Registered(st), LAMBDA s : ShouldReceive(s, d))
    IN [k \in 1..Len(accepting) |-> [type |-> T, subscriber |-> accepting[k], value |-> d]]

\* ForwardPublish<Data>::onBufferComplete: Publish<Data>::publish(buffer_),
\* which is Broker<Data>::publish(buffer_).
onBufferComplete(m, T) ==
    [m EXCEPT !.notified = Append(m.notified, [type |-> T, value |-> m.buffer_[T]]),
              !.delivered = m.delivered \o BrokerPublish(T, stateOf[BrokerOf(T)], m.buffer_[T])]

nextState_SkipPostfix(m, currentState) ==
    CASE currentState = "Prefix" -> [state |-> "Header", m |-> m]
      [] currentState = "Header" -> [state |-> "Data", m |-> m]
      [] OTHER -> [state |-> IF hasPrefix THEN "Prefix" ELSE "Header",
                   m |-> onBufferComplete(m, m.reader.currentBuffer_.bufferPublisher)]

\* BinaryReader::nextState(currentState): the next state, with the machine
\* after the completion signal, or the assertion that failed.
nextState(m, currentState) ==
    CASE currentState = "Prefix" -> [state |-> "Header", m |-> m]
      [] currentState = "Header" -> [state |-> "Data", m |-> m]
      [] currentState = "Data" -> [state |-> "Postfix", m |-> m]
      [] currentState = "Postfix" ->
            IF m.reader.currentBuffer_.bufferPublisher = "null"
            THEN [state |-> currentState, m |-> [m EXCEPT !.err = "NoPublisher"]]
            ELSE IF ~checkStateOk(currentState, m.reader)
            THEN [state |-> currentState, m |-> [m EXCEPT !.err = "PostfixMismatch"]]
            ELSE [state |-> IF hasPrefix THEN "Prefix" ELSE "Header",
                  m |-> onBufferComplete(m, m.reader.currentBuffer_.bufferPublisher)]

stateComplete_NoAssert(m) ==
    LET n == nextState(m, m.reader.state_)
    IN IF n.m.err # "none"
       THEN [m |-> n.m, result |-> FALSE]
       ELSE LET cb == findStateBuffer(n.state, n.m.reader, bufferRegistry_)
                m2 == [n.m EXCEPT !.reader.state_ = n.state, !.reader.currentBuffer_ = cb]
            IN [m |-> m2, result |-> cb.buffer # NullPtr]

\* BinaryReader::stateComplete(): moves to the next state and its buffer;
\* a state without a buffer fails an assertion.
stateComplete(m) ==
    LET n == nextState(m, m.reader.state_)
    IN IF n.m.err # "none"
       THEN [m |-> n.m, result |-> FALSE]
       ELSE LET cb == findStateBuffer(n.state, n.m.reader, bufferRegistry_)
                m2 == [n.m EXCEPT !.reader.state_ = n.state, !.reader.currentBuffer_ = cb]
            IN IF cb.buffer = NullPtr
               THEN [m |-> [m2 EXCEPT !.err = IF n.state = "Data" THEN "UnknownHeader"
                                                ELSE "LogicError"],
                     result |-> FALSE]
               ELSE [m |-> m2, result |-> TRUE]

StoreBytes_FirstOnly(m, ptr, bytes) ==
    CASE ptr.region = "header" ->
            [m EXCEPT !.reader.header_ =
                [k \in 1..Len(@) |-> IF k > ptr.offset /\ k <= ptr.offset + Len(bytes)
                                     THEN bytes[k - ptr.offset] ELSE @[k]]]
      [] ptr.region = "postfix" ->
            [m EXCEPT !.reader.postfix_ = IF bytes = << >> THEN @ ELSE bytes]
      [] ptr.region = "data" ->
            [m EXCEPT !.buffer_[ptr.type] =
                [k \in 1..Len(@) |-> IF k = 1 /\ ptr.offset = 0 /\ bytes # << >>
                                     THEN bytes[1] ELSE @[k]]]
      [] ptr.region = "null" -> m

\* The bytes stored through a char* into the buffer it points into.
StoreBytes(m, ptr, bytes) ==
    LET put(old) == [k \in 1..Len(old) |->
                        IF k > ptr.offset /\ k <= ptr.offset + Len(bytes)
                        THEN bytes[k - ptr.offset] ELSE old[k]]
    IN CASE ptr.region = "header" -> [m EXCEPT !.reader.header_ = put(@)]
         [] ptr.region = "postfix" -> [m EXCEPT !.reader.postfix_ = put(@)]
         [] ptr.region = "data" -> [m EXCEPT !.buffer_[ptr.type] = put(@)]
         [] ptr.region = "null" -> m

\* IStream::read(buffer, bufferCount): as many bytes as are wanted and readable.
StreamRead(m, bufferCount) == Min(bufferCount, m.avail)

\* BinaryReader::readBuffer(stream)
readBuffer(m) ==
    LET cb == m.reader.currentBuffer_
        readCount == StreamRead(m, cb.bufferSize)
        m1 == StoreBytes(m, cb.buffer, SubSeq(m.wire, 1, readCount))
        m2 == [m1 EXCEPT !.wire = SubSeq(m.wire, readCount + 1, Len(m.wire)),
                         !.avail = m.avail - readCount,
                         !.reader.currentBuffer_.buffer.offset = @ + readCount,
                         !.reader.currentBuffer_.bufferSize = @ - readCount]
    IN IF m2.reader.currentBuffer_.bufferSize = 0
       THEN stateComplete(m2)
       ELSE [m |-> m2, result |-> FALSE]

RECURSIVE read_Drain(_)
read_Drain(m) ==
    LET r == readBuffer(m)
    IN IF r.result THEN [m |-> read_Drain(r.m).m, result |-> TRUE] ELSE r

\* BinaryReader::read(stream): while (readBuffer(stream)) if (state_ == Header) return true.
RECURSIVE read(_)
read(m) ==
    LET r == readBuffer(m)
    IN IF r.result
       THEN IF r.m.reader.state_ = "Header" THEN r ELSE read(r.m)
       ELSE [m |-> r.m, result |-> FALSE]

\* The bytes BinaryWriter::write put on the stream for the frames ws.
RECURSIVE FramesToBytes(_)
FramesToBytes(ws) ==
    IF ws = << >> THEN << >>
    ELSE WriterWrite(Head(ws).type, Head(ws).value) \o FramesToBytes(Tail(ws))

\* How many bytes of the stream the reader has taken.
Consumed == Len(FramesToBytes(written)) - Len(wire)

\* The bytes of the first n frames written.
FrameBytes(n) == Len(FramesToBytes(SubSeq(written, 1, n)))

\* A read() call that starts between two frames while the source delivers
\* at least the next two frames in full.
BurstRead(c) ==
    LET n == Len(notified)
    IN /\ Len(written) >= n + 2
       /\ Consumed = FrameBytes(n)
       /\ c >= FrameBytes(n + 2) - FrameBytes(n)

(***************************************************************************)
(* Operations on the stream                                                *)
(***************************************************************************)

SetBufferPublisher_Unchecked(T) ==
    /\ readerError = "none"
    /\ \A k \in 1..Len(bufferRegistry_) : bufferRegistry_[k].second.bufferPublisher # T
    /\ bufferRegistry_' =
          RegistryInsert(bufferRegistry_,
                         [first |-> Header(T),
                          second |-> [buffer |-> DataPtr(T), bufferSize |-> SizeOf(T),
                                      bufferPublisher |-> T]])
    /\ UNCHANGED << hasPrefix, typeIdOf, buffer_, reader, wire, written, corrupted,
                    notified, readerError, lastRead >>
    /\ UNCHANGED << brokerVars, typeVars >>

\* ForwardPublish<Data,Provider>::ForwardPublish() registers buffer_ with the
\* reader: setBufferPublisher(buffer, this), with its assert on currentBuffer_.
SetBufferPublisher(T) ==
    /\ readerError = "none"
    /\ \A k \in 1..Len(bufferRegistry_) : bufferRegistry_[k].second.bufferPublisher # T
    /\ IF reader.currentBuffer_.buffer # NullPtr
       THEN /\ readerError' = "LateRegistration"
            /\ UNCHANGED bufferRegistry_
       ELSE /\ bufferRegistry_' =
                  RegistryInsert(bufferRegistry_,
                                 [first |-> Header(T),
                                  second |-> [buffer |-> DataPtr(T), bufferSize |-> SizeOf(T),
                                              bufferPublisher |-> T]])
            /\ UNCHANGED readerError
    /\ UNCHANGED << hasPrefix, typeIdOf, buffer_, reader, wire, written, corrupted,
                    notified, lastRead >>
    /\ UNCHANGED << brokerVars, typeVars >>

\* ForwardPublish<Data,Provider>::ForwardPublish() of one more one-byte
\* payload type: setBufferPublisher stores through
\* bufferRegistryEnd_ without comparing it with the end of the array. On a
\* full array the store is out of bounds: either it lands in the members
\* behind the array and the registry goes on with one entry more than the
\* array has, or the process faults.
RegisterBuffer ==
    /\ readerError = "none"
    /\ Len(bufferRegistry_) <= cMaxDataBufferCount
    /\ LET T == Len(bufferRegistry_) + 1
           stored == RegistryInsert(bufferRegistry_,
                                    [first |-> [typeId |-> typeIdOf[T], dataBytes |-> 1],
                                     second |-> [buffer |-> DataPtr(T), bufferSize |-> 1,
                                                 bufferPublisher |-> T]])
       IN IF reader.currentBuffer_.buffer # NullPtr
          THEN /\ readerError' = "LateRegistration"
               /\ UNCHANGED bufferRegistry_
          ELSE IF Len(bufferRegistry_) < cMaxDataBufferCount
          THEN /\ bufferRegistry_' = stored
               /\ UNCHANGED readerError
          ELSE \/ /\ bufferRegistry_' = stored
                  /\ UNCHANGED readerError
               \/ /\ readerError' = "MemoryFault"
                  /\ UNCHANGED bufferRegistry_
    /\ UNCHANGED << hasPrefix, typeIdOf, buffer_, reader, wire, written, corrupted,
                    notified, lastRead >>
    /\ UNCHANGED << brokerVars, typeVars >>

\* StreamSerializer::forward(data): the writer puts one frame on the stream.
Write(T, v) ==
    /\ readerError = "none"
    /\ Len(written) < MaxFrames
    /\ wire' = wire \o WriterWrite(T, v)
    /\ written' = Append(written, [type |-> T, value |-> v])
    /\ UNCHANGED << hasPrefix, typeIdOf, buffer_, reader, bufferRegistry_, corrupted,
                    notified, readerError, lastRead >>
    /\ UNCHANGED << brokerVars, typeVars >>

\* StreamDeserializer::update(): one BinaryReader::read(stream) call, during
\* which the source delivers c of the bytes written.
Read(c) ==
    /\ readerError = "none"
    /\ c <= Len(wire)
    /\ LET r == read(Machine(c))
       IN /\ reader' = r.m.reader
          /\ buffer_' = r.m.buffer_
          /\ wire' = r.m.wire
          /\ notified' = r.m.notified
          /\ readerError' = r.m.err
          /\ delivered' = r.m.delivered
          /\ lastRead' = [result |-> r.result,
                          completed |-> Len(r.m.notified) - Len(notified),
                          starved |-> c = 0,
                          polled |-> TRUE,
                          burst |-> BurstRead(c)]
    /\ UNCHANGED << hasPrefix, typeIdOf, bufferRegistry_, written, corrupted >>
    /\ UNCHANGED << brokerVars, typeKey, stateOf, publishStream >>

\* One BinaryReader::readBuffer(stream) call of the loop of read, the
\* stream giving it at most c bytes.
ReadBuffer(c) ==
    /\ readerError = "none"
    /\ c <= Len(wire)
    /\ LET r == readBuffer(Machine(c))
       IN /\ reader' = r.m.reader
          /\ buffer_' = r.m.buffer_
          /\ wire' = r.m.wire
          /\ notified' = r.m.notified
          /\ readerError' = r.m.err
          /\ delivered' = r.m.delivered
          /\ lastRead' = [result |-> r.result,
                          completed |-> Len(r.m.notified) - Len(notified),
                          starved |-> c = 0,
                          polled |-> TRUE,
                          burst |-> FALSE]
    /\ UNCHANGED << hasPrefix, typeIdOf, bufferRegistry_, written, corrupted >>
    /\ UNCHANGED << brokerVars, typeKey, stateOf, publishStream >>

\* The stream hands the reader another byte than the writer's postfix for
\* the frame written last (IStream::read is an interface; what it delivers
\* is not under the writer's control).
CorruptPostfix(b) ==
    /\ readerError = "none"
    /\ wire # << >>
    /\ Len(written) \notin corrupted
    /\ b # PostfixDelim
    /\ wire' = [wire EXCEPT ![Len(wire)] = b]
    /\ corrupted' = corrupted \cup {Len(written)}
    /\ UNCHANGED << hasPrefix, typeIdOf, buffer_, reader, bufferRegistry_, written,
                    notified, readerError, lastRead >>
    /\ UNCHANGED << brokerVars, typeVars >>

\* Subscribe<T>::Subscribe() of the subscriber object s of payload type T:
\* Broker<T>(this) stores it in the table of T.
SubscribeFor(T, s) ==
    /\ error = "none"
    /\ readerError = "none"
    /\ s \notin SeqToSet(Registered(stateOf[BrokerOf(T)]))
    /\ LET r == BrokerSubscribe(stateOf[BrokerOf(T)], s)
       IN /\ stateOf' = [stateOf EXCEPT ![BrokerOf(T)] = r.st]
          /\ error' = r.err
    /\ lastOp' = [op |-> "subscribe", arg |-> s, type |-> T]
    /\ UNCHANGED << state_, nextHandle, destroyed, pc, iSubscription, data, calls,
                    startSubs, deadAtStart, removedNow, addedNow, publishCount,
                    receiveCount >>
    /\ UNCHANGED << wireVars, typeKey, delivered, publishStream >>

\* Subscribe<T>::~Subscribe() of a registered subscriber object s of
\* payload type T: Broker<T>::unsubscribe(this).
UnsubscribeFor(T, s) ==
    /\ error = "none"
    /\ readerError = "none"
    /\ s \in SeqToSet(Registered(stateOf[T]))
    /\ LET r == BrokerUnsubscribe(stateOf[BrokerOf(T)], s)
       IN /\ stateOf' = [stateOf EXCEPT ![BrokerOf(T)] = r.st]
          /\ error' = r.err
    /\ lastOp' = [op |-> "unsubscribe", arg |-> s, type |-> T]
    /\ UNCHANGED << state_, nextHandle, destroyed, pc, iSubscription, data, calls,
                    startSubs, deadAtStart, removedNow, addedNow, publishCount,
                    receiveCount >>
    /\ UNCHANGED << wireVars, typeKey, delivered, publishStream >>

\* sub0::publish(from, d) with d of payload type T: the Publish<T> base of
\* the object is selected and Broker<T>::publish(d) runs.
PublishFor(T, d) ==
    /\ error = "none"
    /\ readerError = "none"
    /\ publishCount < MaxPublishes
    /\ delivered' = delivered \o BrokerPublish(T, stateOf[BrokerOf(T)], d)
    /\ publishCount' = publishCount + 1
    /\ lastOp' = [op |-> "publish", arg |-> d, type |-> T]
    /\ UNCHANGED << state_, error, nextHandle, destroyed, pc, iSubscription, data,
                    calls, startSubs, deadAtStart, removedNow, addedNow, receiveCount >>
    /\ UNCHANGED << wireVars, typeKey, stateOf, publishStream >>

(***************************************************************************)
(* PublishStream (src/TempPublishStream.cpp), reading the packets of       *)
(* BinaryProtocol (src/sub0pub.hpp)                                        *)
(***************************************************************************)

\* sizeof(BinaryProtocol::Header): magic, typeId, dataBytes.
StreamHeaderBytes == 12

\* BinaryProtocol::writeHeader, writePayload and the '\n' of
\* StreamSerializer::forward: the bytes of one packet.
PacketBytes(T, v) ==
    U32Bytes(PrefixMagic) \o U32Bytes(typeIdOf[T]) \o U32Bytes(SizeOf(T)) \o v \o << PostfixDelim >>

\* The fields of mHeader.
StreamHeader(b) ==
    [magic |-> BytesU32(SubSeq(b, 1, 4)),
     typeId |-> BytesU32(SubSeq(b, 5, 8)),
     dataBytes |-> BytesU32(SubSeq(b, 9, 12))]

\* PublishStream before addSink and update are called: no packet bytes
\* counted, no payload sink chosen, nothing in the stream.
PublishStreamInit ==
    [pc |-> "idle",
     mPacketByteCount |-> 0,
     mHeader |-> [k \in 1..StreamHeaderBytes |-> 0],
     mPayload |-> 0,
     mSinkEntries |-> << >>,
     inflight |-> << >>,
     avail |-> << >>,
     good |-> TRUE,
     packets |-> 0,
     reads |-> 0,
     sinkFull |-> << >>,
     result |-> "none",
     err |-> "none"]

\* The orders std::sort may leave the sink records in: ascending by typeId,
\* records of equal typeId in any order.
SortedOrders(S) ==
    {s \in [1..Cardinality(S) -> S] :
        /\ \A i, j \in 1..Cardinality(S) : i # j => s[i] # s[j]
        /\ \A i, j \in 1..Cardinality(S) : i < j => s[i].typeId <= s[j].typeId}

\* PublishStream::findSink(typeId): std::lower_bound by typeId, then the
\* comparison of the typeId found; 0 is nullptr, else the index of the record.
findSink(entries, typeId) ==
    LET notLess == {i \in 1..Len(entries) : ~(entries[i].typeId < typeId)}
        iFind == IF notLess = {} THEN Len(entries) + 1
                 ELSE CHOOSE i \in notLess : \A j \in notLess : i <= j
    IN IF iFind # Len(entries) + 1 /\ entries[iFind].typeId = typeId THEN iFind ELSE 0

\* std::istream::readsome(s, n) on a stream that is good(): the bytes it
\* extracts, as many of the n wanted as are available now.
ReadSome(avail, n) == SubSeq(avail, 1, Min(Len(avail), IF n < 0 THEN 0 ELSE n))

\* readHeader: while ( (mPacketByteCount < sizeof(mHeader)) && mStream.good() )
HeaderLoopCondition(ps) == ps.mPacketByteCount < StreamHeaderBytes /\ ps.good

\* readPayload: while ( (mPacketByteCount < (sizeof(mHeader) + mHeader.dataBytes)) && mStream.good() )
PayloadLoopCondition(ps) ==
    ps.mPacketByteCount < StreamHeaderBytes + StreamHeader(ps.mHeader).dataBytes /\ ps.good

\* readPayload: the count handed to readsome, sizeof(mHeader) - mPacketByteCount.
PayloadRequest(ps) == StreamHeaderBytes - ps.mPacketByteCount

\* PublishStream::addSink: the record of the buffer of T is appended and
\* the records are sorted by typeId.
AddSink(T) ==
    /\ publishStream.err = "none"
    /\ publishStream.pc = "idle"
    /\ \A k \in 1..Len(publishStream.mSinkEntries) : publishStream.mSinkEntries[k].notify # T
    /\ \E order \in SortedOrders(SeqToSet(publishStream.mSinkEntries)
                                  \cup {[typeId |-> typeIdOf[T], bufferBytes |-> SizeOf(T),
                                         buffer |-> T, notify |-> T]}) :
          publishStream' = [publishStream EXCEPT !.mSinkEntries = order]
    /\ UNCHANGED << brokerVars, wireVars, typeKey, stateOf, delivered >>

\* StreamSerializer::forward(data) at the other end of the stream: the
\* bytes of one packet are on their way.
StreamForward(T, v) ==
    /\ publishStream.err = "none"
    /\ publishStream.packets < MaxFrames
    /\ publishStream' = [publishStream EXCEPT !.inflight = @ \o PacketBytes(T, v),
                                              !.packets = @ + 1]
    /\ UNCHANGED << brokerVars, wireVars, typeKey, stateOf, delivered >>

\* c of the bytes on their way become available to the stream.
StreamArrive(c) ==
    /\ publishStream.err = "none"
    /\ publishStream.good
    /\ c <= Len(publishStream.inflight)
    /\ publishStream' = [publishStream EXCEPT
                            !.avail = @ \o SubSeq(publishStream.inflight, 1, c),
                            !.inflight = SubSeq(@, c + 1, Len(@))]
    /\ UNCHANGED << brokerVars, wireVars, typeKey, stateOf, delivered >>

\* The other end closes the stream: once the bytes available are read the
\* stream is at its end and good() is false.
StreamEnd ==
    /\ publishStream.err = "none"
    /\ publishStream.good
    /\ publishStream.avail = << >>
    /\ publishStream' = [publishStream EXCEPT !.good = FALSE]
    /\ UNCHANGED << brokerVars, wireVars, typeKey, stateOf, delivered >>

\* What update() does once the loop of readHeader is left or not entered:
\* the rest of readHeader, the entry into readPayload, or the return.
AfterHeader(ps) ==
    IF ps.mPacketByteCount # StreamHeaderBytes
    THEN [ps EXCEPT !.pc = "idle", !.result = "false"]
    ELSE LET h == StreamHeader(ps.mHeader)
             sink == findSink(ps.mSinkEntries, h.typeId)
         IN IF h.magic # PrefixMagic
            THEN [ps EXCEPT !.err = "BadMagic"]
            ELSE IF sink = 0
            THEN [ps EXCEPT !.mPayload = sink, !.err = "NoSink"]
            ELSE IF ~(ps.mPacketByteCount < StreamHeaderBytes + h.dataBytes)
            THEN [ps EXCEPT !.mPayload = sink, !.err = "PayloadOverrun"]
            ELSE [ps EXCEPT !.mPayload = sink, !.pc = "readPayload"]

\* PublishStream::update() is called: readHeader is entered when the
\* header is incomplete, readPayload when it is complete.
UpdateCall ==
    /\ publishStream.err = "none"
    /\ publishStream.pc = "idle"
    /\ publishStream' =
          IF publishStream.mPacketByteCount < StreamHeaderBytes
          THEN [publishStream EXCEPT !.pc = "readHeader", !.reads = 0, !.result = "none"]
          ELSE IF publishStream.mPayload = 0
          THEN [publishStream EXCEPT !.err = "NoSink", !.reads = 0, !.result = "none"]
          ELSE [publishStream EXCEPT !.pc = "readPayload", !.reads = 0, !.result = "none"]
    /\ UNCHANGED << brokerVars, wireVars, typeKey, stateOf, delivered >>

\* One iteration of the loop of readHeader: readsome into mHeader.
ReadHeaderStep ==
    /\ publishStream.err = "none"
    /\ publishStream.pc = "readHeader"
    /\ HeaderLoopCondition(publishStream)
    /\ LET got == ReadSome(publishStream.avail,
                           StreamHeaderBytes - publishStream.mPacketByteCount)
           at == publishStream.mPacketByteCount
       IN publishStream' =
             [publishStream EXCEPT
                !.mHeader = [k \in 1..StreamHeaderBytes |->
                                IF k > at /\ k <= at + Len(got) THEN got[k - at] ELSE @[k]],
                !.mPacketByteCount = @ + Len(got),
                !.avail = SubSeq(@, Len(got) + 1, Len(@)),
                !.reads = (@ + 1) % (MaxReads + 1)]
    /\ UNCHANGED << brokerVars, wireVars, typeKey, stateOf, delivered >>

\* The loop of readHeader is left: update() returns false on an incomplete
\* header, else the magic is checked, the sink looked up and readPayload
\* entered.
ReadHeaderExit ==
    /\ publishStream.err = "none"
    /\ publishStream.pc = "readHeader"
    /\ ~HeaderLoopCondition(publishStream)
    /\ publishStream' = AfterHeader(publishStream)
    /\ UNCHANGED << brokerVars, wireVars, typeKey, stateOf, delivered >>

\* One iteration of the loop of readPayload: readsome into the buffer of
\* the sink.
ReadPayloadStep ==
    /\ publishStream.err = "none"
    /\ publishStream.pc = "readPayload"
    /\ PayloadLoopCondition(publishStream)
    /\ LET got == ReadSome(publishStream.avail, PayloadRequest(publishStream))
           T == publishStream.mSinkEntries[publishStream.mPayload].buffer
           at == publishStream.mPacketByteCount - StreamHeaderBytes
       IN /\ publishStream' = [publishStream EXCEPT
                                  !.mPacketByteCount = @ + Len(got),
                                  !.avail = SubSeq(@, Len(got) + 1, Len(@)),
                                  !.reads = (@ + 1) % (MaxReads + 1)]
          /\ buffer_' = [buffer_ EXCEPT ![T] =
                            [k \in 1..Len(@) |->
                                IF k > at /\ k <= at + Len(got) THEN got[k - at] ELSE @[k]]]
    /\ UNCHANGED << hasPrefix, typeIdOf, reader, bufferRegistry_, wire, written,
                    corrupted, notified, readerError, lastRead >>
    /\ UNCHANGED << brokerVars, typeKey, stateOf, delivered >>

\* The loop of readPayload is left: update() returns false on an
\* incomplete packet; on a complete one it takes the delimiter, notifies
\* the sink, resets and returns true.
ReadPayloadExit ==
    /\ publishStream.err = "none"
    /\ publishStream.pc = "readPayload"
    /\ ~PayloadLoopCondition(publishStream)
    /\ LET ps == publishStream
           complete == ps.mPacketByteCount
                          = StreamHeaderBytes + StreamHeader(ps.mHeader).dataBytes
       IN publishStream' =
             IF ~complete
             THEN [ps EXCEPT !.pc = "idle", !.result = "false"]
             ELSE IF ps.avail = << >> \/ ps.avail[1] # PostfixDelim
             THEN [ps EXCEPT !.err = "BadDelimiter"]
             ELSE [ps EXCEPT !.avail = SubSeq(@, 2, Len(@)),
                             !.sinkFull = Append(@, ps.mSinkEntries[ps.mPayload].notify),
                             !.mPacketByteCount = 0,
                             !.mPayload = 0,
                             !.pc = "idle",
                             !.result = "true"]
    /\ UNCHANGED << brokerVars, wireVars, typeKey, stateOf, delivered >>

\* The reader side before anything is registered, written or read.
WireInit ==
    /\ buffer_ = [T \in Types |-> [k \in 1..SizeOf(T) |-> 0]]
    /\ reader = ReaderInit
    /\ bufferRegistry_ = << >>
    /\ wire = << >>
    /\ written = << >>
    /\ corrupted = {}
    /\ notified = << >>
    /\ readerError = "none"
    /\ lastRead = [result |-> FALSE, completed |-> 0, starved |-> FALSE,
                   polled |-> FALSE, burst |-> FALSE]

BrokerInit ==
    /\ state_ = StateInit
    /\ error = "none"
    /\ nextHandle = 1
    /\ destroyed = {}
    /\ pc = "idle"
    /\ iSubscription = 0
    /\ data = 1
    /\ calls = << >>
    /\ startSubs = << >>
    /\ deadAtStart = {}
    /\ removedNow = {}
    /\ addedNow = {}
    /\ publishCount = 0
    /\ receiveCount = 0
    /\ lastOp = [op |-> "none", arg |-> 0]
    /\ typeKey = [typeId |-> 0, typeName |-> 0]
    /\ stateOf = [T \in Types |-> StateInit]
    /\ delivered = << >>
    /\ publishStream = PublishStreamInit

(***************************************************************************)
(* The SubscribeTo / PublishTo variant of the broker (src/sub0pub.hpp)     *)
(***************************************************************************)

\* Broker::cMaxSubscriptions of the variant.
cMaxSubscriptionsTo == 5

\* Broker<Data>::state_ of the variant, value-initialised.
StateInitTo == [subscriptionCount |-> 0,
                subscriptions |-> [k \in 1..cMaxSubscriptionsTo |-> nullptr]]

\* Broker::Broker(SubscribeTo<Data>*, typeName = nullptr): onSubscription's
\* assertion, setDataName(nullptr) (returns at once), then the store.
BrokerSubscribeTo(st, subscriber) ==
    IF onSubscriptionOk(st.subscriptionCount, cMaxSubscriptionsTo)
    THEN [st |-> [subscriptionCount |-> st.subscriptionCount + 1,
                  subscriptions |-> [st.subscriptions EXCEPT ![st.subscriptionCount + 1] = subscriber]],
          err |-> "none"]
    ELSE [st |-> st, err |-> "CapacityExceeded"]

\* Broker::publish of the variant: the subscribers it goes through, the
\* first min(subscriptionCount, cMaxSubscriptions) slots in order.
BrokerPublishTo(st) ==
    [k \in 1..Min(st.subscriptionCount, cMaxSubscriptionsTo) |-> st.subscriptions[k]]

\* SubscribeTo<Data>::SubscribeTo(): broker_(this, typeName).
SubscribeTo_Construct ==
    /\ error = "none"
    /\ nextHandle <= MaxHandles
    /\ LET r == BrokerSubscribeTo(state_, nextHandle)
       IN /\ state_' = r.st
          /\ error' = r.err
          /\ nextHandle' = IF r.err = "none" THEN nextHandle + 1 ELSE nextHandle
    /\ lastOp' = [op |-> "subscribeTo", arg |-> nextHandle]
    /\ UNCHANGED destroyed
    /\ ClearDispatch
    /\ UNCHANGED << wireVars, typeVars >>

\* SubscribeTo<Data>::~SubscribeTo() of a live subscriber: the body is
\* empty and the Broker member has no destructor; the table is not touched.
SubscribeTo_Destroy(subscriber) ==
    /\ error = "none"
    /\ subscriber < nextHandle
    /\ subscriber \notin destroyed
    /\ destroyed' = destroyed \cup {subscriber}
    /\ lastOp' = [op |-> "destroyTo", arg |-> subscriber]
    /\ UNCHANGED << state_, error, nextHandle >>
    /\ ClearDispatch
    /\ UNCHANGED << wireVars, typeVars >>

\* PublishTo<Data>::publish(d): Broker::publish calls receive through every
\* pointer of the table. The call through the pointer to a destroyed
\* object is undefined: either it runs as if the object were alive, or
\* the process faults there.
PublishTo_publish(d) ==
    /\ error = "none"
    /\ publishCount < MaxPublishes
    /\ LET subs == BrokerPublishTo(state_)
           dead == {k \in 1..Len(subs) : subs[k] \in destroyed}
       IN \E faults \in BOOLEAN :
             LET n == IF faults /\ dead # {}
                      THEN (CHOOSE k \in dead : \A j \in dead : k <= j) - 1
                      ELSE Len(subs)
             IN /\ faults => dead # {}
                /\ calls' = [k \in 1..n |-> << "receive", subs[k] >>]
                /\ receiveCount' = receiveCount + n
                /\ error' = IF faults THEN "MemoryFault" ELSE "none"
    /\ data' = d
    /\ deadAtStart' = destroyed
    /\ publishCount' = publishCount + 1
    /\ lastOp' = [op |-> "publishTo", arg |-> d]
    /\ UNCHANGED << state_, nextHandle, destroyed, pc, iSubscription, startSubs,
                    removedNow, addedNow >>
    /\ UNCHANGED << wireVars, typeVars >>

\* The default build: DefaultSerialisation, SUB0PUB_TYPEIDNAME off.
Init ==
    /\ BrokerInit
    /\ hasPrefix = TRUE
    /\ typeIdOf = [T \in Types |-> 12345]
    /\ WireInit

\* Subscribers come and go and values are published.
Next ==
    \/ Construct(MaxHandles)
    \/ \E s \in 1..MaxHandles : Unsubscribe(s)
    \/ \E d \in DataValues : PublishBegin(d)
    \/ PublishStep
    \/ PublishEnd

Spec == Init /\ [][Next]_vars

\* Publishers and subscribers of one payload type are constructed with any
\* type ids and names, and subscribers destroyed.
NextTypeKey ==
    \/ \E id \in TypeIdArgs : \E name \in TypeNameArgs : ConstructPublish(id, name)
    \/ \E id \in TypeIdArgs : \E name \in TypeNameArgs : ConstructNamed(MaxHandles, id, name)
    \/ \E s \in 1..MaxHandles : Unsubscribe(s)

SpecTypeKey == Init /\ [][NextTypeKey]_vars

\* Objects subscribe to, unsubscribe from and publish values of the
\* payload types.
NextTypes ==
    \/ \E T \in Types : \E s \in ForwardSubscribers : SubscribeFor(T, s)
    \/ \E T \in Types : \E s \in ForwardSubscribers : UnsubscribeFor(T, s)
    \/ \E T \in Types : PublishFor(T, ForwardValue(T))

SpecTypes == Init /\ [][NextTypes]_vars

\* The variant before any subscriber is constructed.
InitTo ==
    /\ state_ = StateInitTo
    /\ error = "none"
    /\ nextHandle = 1
    /\ destroyed = {}
    /\ pc = "idle"
    /\ iSubscription = 0
    /\ data = 1
    /\ calls = << >>
    /\ startSubs = << >>
    /\ deadAtStart = {}
    /\ removedNow = {}
    /\ addedNow = {}
    /\ publishCount = 0
    /\ receiveCount = 0
    /\ lastOp = [op |-> "none", arg |-> 0]
    /\ typeKey = [typeId |-> 0, typeName |-> 0]
    /\ stateOf = [T \in Types |-> StateInit]
    /\ delivered = << >>
    /\ publishStream = PublishStreamInit
    /\ hasPrefix = TRUE
    /\ typeIdOf = [T \in Types |-> 12345]
    /\ WireInit

\* Subscribers of the variant are constructed and destroyed and values are
\* published.
NextTo ==
    \/ SubscribeTo_Construct
    \/ \E s \in 1..MaxHandles : SubscribeTo_Destroy(s)
    \/ \E d \in DataValues : PublishTo_publish(d)

SpecTo == InitTo /\ [][NextTo]_vars

\* Registrations and unregistrations alone, up to one subscriber more than
\* the table holds.
NextRegistry ==
    \/ Construct(RegistryHandles)
    \/ \E s \in 1..RegistryHandles : Unsubscribe(s)

SpecRegistry == Init /\ [][NextRegistry]_vars

\* A protocol with or without a prefix, under either way of giving type ids.
InitWire ==
    /\ BrokerInit
    /\ hasPrefix \in BOOLEAN
    /\ typeIdOf \in TypeIdChoices
    /\ WireInit

\* Buffers are registered, frames are written and the reader is polled, the
\* source delivering the bytes in chunks of any size.
NextWire ==
    \/ \E T \in Types : SetBufferPublisher(T)
    \/ \E T \in Types : \E v \in ValuesOf(T) : Write(T, v)
    \/ \E c \in 0..MaxChunk : Read(c)

SpecWire == InitWire /\ [][NextWire]_vars

\* Sinks are added, packets are sent and arrive in chunks of any size, the
\* stream may end, and update() is called and runs.
UpdateSteps == ReadHeaderStep \/ ReadHeaderExit \/ ReadPayloadStep \/ ReadPayloadExit

NextStream ==
    \/ \E T \in Types : AddSink(T)
    \/ \E T \in Types : StreamForward(T, ForwardValue(T))
    \/ \E c \in 1..MaxChunk : StreamArrive(c)
    \/ StreamEnd
    \/ UpdateCall
    \/ UpdateSteps

SpecStream == InitWire /\ [][NextStream]_vars

\* update() keeps running once it is called: the thread that called it is
\* scheduled. Nothing obliges the other end to send or to close.
SpecStreamLive == SpecStream /\ WF_vars(UpdateSteps)

\* Subscribers of the forwarded types are constructed while frames are
\* written and the reader is polled, the source delivering one byte or all
\* the bytes written.
NextForward ==
    \/ \E T \in Types : \E s \in ForwardSubscribers : SubscribeFor(T, s)
    \/ \E T \in Types : SetBufferPublisher(T)
    \/ \E T \in Types : Write(T, ForwardValue(T))
    \/ \E c \in {1, Len(wire)} : Read(c)

SpecForward == InitWire /\ [][NextForward]_vars

\* Buffers are registered, frames are written, and the reader makes one
\* readBuffer call after the other, each getting up to a header's length of
\* bytes from the stream.
NextStages ==
    \/ \E T \in Types : SetBufferPublisher(T)
    \/ \E T \in Types : \E v \in ValuesOf(T) : Write(T, v)
    \/ \E c \in 0..HeaderBytes : ReadBuffer(c)

SpecStages == InitWire /\ [][NextStages]_vars

\* Frames of one payload type over a stream that may deliver a wrong
\* postfix byte.
NextCorrupt ==
    \/ SetBufferPublisher("A")
    \/ \E v \in ValuesOf("A") : Write("A", v)
    \/ \E b \in ByteValues : CorruptPostfix(b)
    \/ \E c \in 0..MaxChunk : Read(c)

SpecCorrupt == InitWire /\ [][NextCorrupt]_vars

\* One buffer after the other is registered with a reader, up to one more
\* than the registry array holds.
InitCapacity ==
    /\ BrokerInit
    /\ hasPrefix = TRUE
    /\ typeIdOf \in CapacityTypeIds
    /\ WireInit

NextCapacity == RegisterBuffer

SpecCapacity == InitCapacity /\ [][NextCapacity]_vars

\* Buffers of up to four payload types, with any type ids, are registered
\* with a reader in any order.
InitBuffers ==
    /\ BrokerInit
    /\ hasPrefix = TRUE
    /\ typeIdOf \in [BufferTypes -> 1..MaxTypeId]
    /\ WireInit

NextBuffers == \E T \in BufferTypes : SetBufferPublisher(T)

SpecBuffers == InitBuffers /\ [][NextBuffers]_vars

(***************************************************************************)
(* Properties of the Broker                                                *)
(***************************************************************************)

\* The subscribers that got a receive call in the current publish call, in
\* call order.
Receivers ==
    LET rs == SelectSeq(calls, LAMBDA c : c[1] = "receive")
    IN [k \in 1..Len(rs) |-> rs[k][2]]

\* How many receive calls the subscriber got in the current publish call.
ReceiveCallsOn(s) == Cardinality({k \in 1..Len(calls) : calls[k] = << "receive", s >>})

\* No callback of the current publish call changed the table.
NoCallbackChange == removedNow = {} /\ addedNow = {}

\* s with its element at position p taken out.
DeleteAt(s, p) == SubSeq(s, 1, p - 1) \o SubSeq(s, p + 1, Len(s))

\* C1: whatever registrations and unregistrations are made, the number of
\* registered subscribers never exceeds cMaxSubscriptions.
C1_CountWithinCapacity == state_.subscriptionCount <= cMaxSubscriptions

\* C1 witness: the table is full and one more registration was attempted.
C1_Witness ==
    /\ state_.subscriptionCount = cMaxSubscriptions
    /\ lastOp.op = "subscribe"
    /\ error = "CapacityExceeded"

\* C2: a registration made while the table holds cMaxSubscriptions
\* subscribers fails with CapacityExceeded and leaves the subscriber sequence
\* (entries and count) as it was.
C2_FullRegisterFails ==
    [][ (lastOp'.op = "subscribe" /\ state_.subscriptionCount = cMaxSubscriptions)
            => /\ error' = "CapacityExceeded"
               /\ state_'.subscriptionCount = state_.subscriptionCount
               /\ Registered(state_') = Registered(state_) ]_vars

\* C2 witness: a registration on a full table has failed.
C2_Witness ==
    /\ error = "CapacityExceeded"
    /\ Len(Registered(state_)) = cMaxSubscriptions

\* C3: when a publish call whose callbacks change nothing returns, the
\* receive calls it made are exactly the subscribers registered at its start
\* whose filter accepts the value, once each, in registration order; and k
\* publish calls to n subscribers that filter nothing make k*n receive calls.
C3_DeliveryInOrder ==
    /\ (pc = "done" /\ NoCallbackChange)
          => Receivers = SelectSeq(startSubs, LAMBDA s : filter(s, data))
    /\ (Idle /\ \A k \in 1..state_.subscriptionCount :
                    ~OverridesFilter(state_.subscriptions[k]))
          => receiveCount = publishCount * state_.subscriptionCount

\* C3 witness: the second publish call to three or more subscribers has
\* returned, and one of them filtered the value out.
C3_Witness ==
    /\ pc = "done"
    /\ NoCallbackChange
    /\ Len(startSubs) >= 3
    /\ publishCount = 2
    /\ \E k \in 1..Len(startSubs) : ~filter(startSubs[k], data)
    /\ Len(Receivers) >= 2

\* C4: a subscriber whose filter rejects the value gets no receive call for
\* it, and the subscribers registered after it are still delivered to.
C4_FilterRejects ==
    /\ \A k \in 1..Len(calls) :
          calls[k][1] = "receive" => filter(calls[k][2], data)
    /\ (pc = "done" /\ NoCallbackChange)
          => \A j \in 1..Len(startSubs) : \A k \in (j + 1)..Len(startSubs) :
                (~filter(startSubs[j], data) /\ filter(startSubs[k], data))
                    => ReceiveCallsOn(startSubs[k]) = 1

\* C4 witness: a publish call has returned in which a subscriber rejected
\* the value and a subscriber registered after it received it.
C4_Witness ==
    /\ pc = "done"
    /\ NoCallbackChange
    /\ \E j \in 1..Len(startSubs) : \E k \in (j + 1)..Len(startSubs) :
          /\ ~filter(startSubs[j], data)
          /\ << "filter", startSubs[j] >> \in SeqToSet(calls)
          /\ << "receive", startSubs[k] >> \in SeqToSet(calls)

\* C5: a publish call invokes neither filter nor receive of a subscriber
\* that had been unregistered before the call started.
C5_NoCallAfterUnsubscribe ==
    \A k \in 1..Len(calls) : calls[k][2] \notin deadAtStart

\* C5 witness: a publish call that started after a subscriber was destroyed
\* has invoked the remaining subscribers.
C5_Witness ==
    /\ pc = "done"
    /\ deadAtStart # {}
    /\ Len(calls) >= 2
    /\ \E s \in deadAtStart : \E k \in 1..Len(startSubs) : s < startSubs[k]

\* C6: unsubscribing a registered subscriber removes exactly its entry: the
\* sequence afterwards is the sequence before with that entry deleted.
C6_StableRemove ==
    [][ \A p \in 1..state_.subscriptionCount :
           (lastOp'.op = "unsubscribe" /\ state_.subscriptions[p] = lastOp'.arg)
              => /\ error' = "none"
                 /\ state_'.subscriptionCount = state_.subscriptionCount - 1
                 /\ Registered(state_') = DeleteAt(Registered(state_), p) ]_vars

\* C6 witness: a subscriber registered before two others has been removed.
C6_Witness ==
    /\ lastOp.op = "unsubscribe"
    /\ error = "none"
    /\ state_.subscriptionCount >= 2
    /\ lastOp.arg < state_.subscriptions[1]

\* C7: unsubscribing a subscriber that is not registered fails or does
\* nothing: the subscriber sequence and the count stay as they were.
C7_AbsentUnsubscribe ==
    [][ (lastOp'.op = "unsubscribe"
            /\ lastOp'.arg \notin SeqToSet(Registered(state_)))
           => /\ state_'.subscriptionCount = state_.subscriptionCount
              /\ Registered(state_') = Registered(state_) ]_vars

\* C7 witness: an unsubscribe of an unregistered subscriber has failed while
\* others are registered.
C7_Witness ==
    /\ lastOp.op = "unsubscribe"
    /\ error = "NotSubscribed"
    /\ state_.subscriptionCount >= 2
    /\ lastOp.arg \notin SeqToSet(Registered(state_))

\* C8: when a publish call returns during which a receive callback
\* unsubscribed a subscriber, every subscriber registered at its start and
\* still registered at its end whose filter accepts the value got exactly
\* one receive call.
C8_UnsubscribeInCallbackSkipsNone ==
    (pc = "done" /\ removedNow # {} /\ addedNow = {})
        => \A k \in 1..Len(startSubs) :
              (startSubs[k] \notin destroyed /\ filter(startSubs[k], data))
                  => ReceiveCallsOn(startSubs[k]) = 1

\* C9: within one publish call, a subscriber that a receive callback
\* unsubscribed is not invoked (filter or receive) after that callback
\* returned. (filter is taken to be a predicate without side effects.)
C9_RemovedNotInvoked ==
    \A r \in removedNow :
        \A k \in 1..Len(calls) : k > r[2] => calls[k][2] # r[1]

\* C9 witness: a callback unsubscribed a subscriber registered after the
\* one being delivered to, and the publish call went on to invoke others.
C9_Witness ==
    /\ pc = "done"
    /\ \E r \in removedNow :
          /\ Len(calls) > r[2]
          /\ \E k \in 1..Len(startSubs) : startSubs[k] = r[1] /\ k > 1
          /\ calls[r[2]][2] < r[1]

(***************************************************************************)
(* Properties of the stream reader and writer                              *)
(***************************************************************************)

\* The payload types whose buffer is registered with the reader.
RegisteredTypes == {bufferRegistry_[k].second.bufferPublisher : k \in 1..Len(bufferRegistry_)}

\* The reader's assertions that a well-formed stream must not trip.
FramingErrors == {"UnknownHeader", "LogicError", "PostfixMismatch", "NoPublisher"}

\* C10: with the default protocol (prefix, header, postfix), a reader fed
\* exactly the bytes of one write(v) of a registered type, in chunks of any
\* size, does not fail, completes no frame but that one, and has completed
\* it with the bound buffer equal to v once all the bytes are read.
C10_RoundTrip ==
    (hasPrefix /\ Len(written) = 1 /\ written[1].type \in RegisteredTypes)
        => /\ readerError \notin FramingErrors
           /\ \A k \in 1..Len(notified) : k = 1 /\ notified[k] = written[1]
           /\ (wire = << >> /\ readerError = "none") => notified = written

\* C11: for N values of registered types written one after the other and
\* fed to the reader in chunks of any size, the reader does not fail, its
\* completion notifications are the values written, in the order written,
\* each with the bound buffer holding that value, and there are N of them
\* once every byte has been read.
C11_AllFramesInOrder ==
    (\A k \in 1..Len(written) : written[k].type \in RegisteredTypes)
        => /\ readerError \notin FramingErrors
           /\ Len(notified) <= Len(written)
           /\ \A k \in 1..Len(notified) : notified[k] = written[k]
           /\ (wire = << >> /\ written # << >> /\ readerError = "none")
                 => Len(notified) = Len(written)

\* C12: a read() call returns true exactly when a frame was completed (its
\* completion notification fired) during the call.
C12_TrueOnlyOnCompletion ==
    lastRead.result <=> (lastRead.completed >= 1)

\* C13: a read() call during which the source delivers no byte returns
\* false and leaves the stage, the cursor, the registered buffers and the
\* completion notifications as they were.
C13_StarvedReadChangesNothing ==
    [][ (lastRead'.starved /\ lastRead' # lastRead)
            => /\ ~lastRead'.result
               /\ reader' = reader
               /\ buffer_' = buffer_
               /\ bufferRegistry_' = bufferRegistry_
               /\ notified' = notified ]_vars

\* The registered entries have pairwise distinct type ids.
DistinctTypeIds ==
    \A i, j \in 1..Len(bufferRegistry_) :
        i # j => bufferRegistry_[i].first.typeId # bufferRegistry_[j].first.typeId

\* C14: after any sequence of setBufferPublisher calls the occupied part of
\* bufferRegistry_ is sorted ascending by typeId.
C14_RegistrySorted ==
    \A i, j \in 1..Len(bufferRegistry_) :
        i < j => bufferRegistry_[i].first.typeId <= bufferRegistry_[j].first.typeId

\* C14 witness: four buffers with distinct type ids are registered; the
\* buffer of D sits first and the buffer of B last.
C14_Witness ==
    /\ Len(bufferRegistry_) = 4
    /\ DistinctTypeIds
    /\ bufferRegistry_[1].second.bufferPublisher = "D"
    /\ bufferRegistry_[4].second.bufferPublisher = "B"

\* C15: in a registry whose entries have pairwise distinct type ids, the
\* lookup of a header with type id k finds nothing when no entry has type id
\* k, and finds the entry registered for k (buffer, length and notifier) when
\* the header is that of the registered type.
C15_FindExact ==
    DistinctTypeIds =>
        \A k \in 1..(MaxTypeId + 1) :
            LET present == {i \in 1..Len(bufferRegistry_) : bufferRegistry_[i].first.typeId = k}
            IN /\ present = {} =>
                     \A n \in 1..2 :
                         findBufferPublisher(bufferRegistry_, [typeId |-> k, dataBytes |-> n])
                             = NullBuffer
               /\ \A i \in present :
                     findBufferPublisher(bufferRegistry_, bufferRegistry_[i].first)
                         = bufferRegistry_[i].second

\* C15 witness: three buffers with distinct type ids are registered and a
\* fourth type id has none.
C15_Witness ==
    /\ Len(bufferRegistry_) = 3
    /\ DistinctTypeIds
    /\ \E k \in 1..MaxTypeId :
          \A i \in 1..Len(bufferRegistry_) : bufferRegistry_[i].first.typeId # k

\* The header the reader has read in full.
header_ == BytesToHeader(reader.header_)

\* The reader has read a header in full and no registered buffer has its
\* type id.
HeaderTypeIdUnregistered ==
    /\ reader.state_ = "Data"
    /\ \A i \in 1..Len(bufferRegistry_) : bufferRegistry_[i].first.typeId # header_.typeId

\* The reader has read a header in full whose type id is registered, but
\* with no buffer of the length the header gives.
HeaderSizeMismatch ==
    /\ reader.state_ = "Data"
    /\ \E i \in 1..Len(bufferRegistry_) : bufferRegistry_[i].first.typeId = header_.typeId
    /\ \A i \in 1..Len(bufferRegistry_) :
          bufferRegistry_[i].first.typeId = header_.typeId
              => bufferRegistry_[i].second.bufferSize # header_.dataBytes

\* The value the buffer of type T held at its last completion notification
\* (the initial value when there was none).
LastValue(T) ==
    LET ks == {k \in 1..Len(notified) : notified[k].type = T}
    IN IF ks = {} THEN [k \in 1..SizeOf(T) |-> 0]
       ELSE notified[CHOOSE k \in ks : \A j \in ks : j <= k].value

\* C16: when the reader has read a header whose type id has no registered
\* buffer, it has reported the error (the unknown-header assertion), the
\* read() call that read the header completed no frame and returned false,
\* and every registered buffer still holds what it held at its last
\* completion notification.
C16_UnknownTypeRejected ==
    HeaderTypeIdUnregistered
        => /\ readerError = "UnknownHeader"
           /\ ~lastRead.result
           /\ lastRead.completed = 0
           /\ \A T \in Types : buffer_[T] = LastValue(T)

\* C16 witness: one frame was completed, and the header of the next frame,
\* of a type that is not registered, has been rejected.
C16_Witness ==
    /\ ~hasPrefix
    /\ HeaderTypeIdUnregistered
    /\ readerError = "UnknownHeader"
    /\ Len(notified) = 1
    /\ Len(written) = 2

\* C17: after a header with an unknown type id the reader halts: it has
\* stopped with an error, having consumed the completed frames and that
\* header and not one byte more.
C17_UnknownTypeHalts ==
    HeaderTypeIdUnregistered
        => /\ readerError # "none"
           /\ Consumed = FrameBytes(Len(notified)) + HeaderBytes

\* C17 witness: the reader has stopped at the header of an unregistered
\* type while a frame of a registered type follows it on the stream.
C17_Witness ==
    /\ ~hasPrefix
    /\ HeaderTypeIdUnregistered
    /\ readerError = "UnknownHeader"
    /\ Len(written) = 2
    /\ written[2].type \in RegisteredTypes
    /\ Len(wire) > SizeOf(written[1].type) + PostfixBytes

\* C18: a header whose dataBytes is not the length of a buffer registered
\* for its type id is rejected; while payload is read, the header's
\* dataBytes is the registered length and the bytes written plus the bytes
\* still wanted make up exactly that length; and when the payload is
\* complete exactly that many payload bytes have been taken from the stream.
C18_SizeMismatchRejected ==
    /\ HeaderSizeMismatch => readerError = "UnknownHeader"
    /\ reader.currentBuffer_.buffer.region = "data"
          => LET T == reader.currentBuffer_.buffer.type
             IN /\ header_.dataBytes = SizeOf(T)
                /\ reader.currentBuffer_.buffer.offset + reader.currentBuffer_.bufferSize
                      = SizeOf(T)
    /\ (reader.state_ = "Postfix" /\ readerError = "none")
          => Consumed = FrameBytes(Len(notified)) + HeaderBytes
                            + SizeOf(reader.currentBuffer_.bufferPublisher)
                            + reader.currentBuffer_.buffer.offset

\* C18 witness: a header with a registered type id and a dataBytes that is
\* not the registered length has been rejected.
C18_Witness ==
    /\ ~hasPrefix
    /\ HeaderSizeMismatch
    /\ readerError = "UnknownHeader"
    /\ written # << >>

\* C19: a completion notification is made only for a frame whose postfix
\* byte arrived equal to the delimiter; once the reader has read a postfix
\* byte that differs, it has stopped with the postfix assertion, the read()
\* call completed no frame, and that frame has no notification.
C19_PostfixChecked ==
    /\ \A k \in 1..Len(notified) : k \notin corrupted
    /\ reader.postfix_ # << PostfixDelim >>
          => /\ readerError = "PostfixMismatch"
             /\ lastRead.completed = 0
             /\ Len(notified) + 1 \in corrupted

\* C19 witness: after one frame was completed, the postfix of the next one
\* arrived wrong and the reader stopped without a second notification.
C19_Witness ==
    /\ readerError = "PostfixMismatch"
    /\ reader.state_ = "Postfix"
    /\ Len(notified) = 1
    /\ corrupted = {2}

\* C20: with a prefix configured, the reader has taken the prefix bytes
\* from the stream before it is in any later stage, and the header it has
\* read in full is the bytes that follow the prefix.
C20_PrefixConsumedFirst ==
    (hasPrefix /\ reader.state_ # "Prefix")
        => /\ Consumed >= PrefixBytes
           /\ (reader.state_ = "Data")
                 => reader.header_ = SubSeq(FramesToBytes(written), PrefixBytes + 1,
                                            PrefixBytes + HeaderBytes)

\* C21: before any read() call a reader is in stage Prefix when the
\* protocol has a prefix and in stage Header when it has none.
C21_InitialStage ==
    ~lastRead.polled => reader.state_ = (IF hasPrefix THEN "Prefix" ELSE "Header")

\* C22: once read() has been called, no setBufferPublisher call changes the
\* buffer registry, and in whatever stage the reader is (between frames
\* too) the cursor is set, so that the call fails its assertion.
C22_RegistrationClosed ==
    [][ lastRead.polled
            => /\ bufferRegistry_' = bufferRegistry_
               /\ readerError = "none" => reader.currentBuffer_.buffer # NullPtr ]_vars

\* C22 witness: a buffer registration made between two frames, after one
\* frame was completed, has failed.
C22_Witness ==
    /\ readerError = "LateRegistration"
    /\ lastRead.polled
    /\ Len(notified) = 1
    /\ reader.state_ = "Header"
    /\ reader.currentBuffer_.bufferSize = HeaderBytes

\* C23: the buffer registry never holds more than cMaxDataBufferCount
\* entries, and a registration made while it holds that many fails with
\* CapacityExceeded and leaves the registry as it was.
C23_BufferCapacity ==
    [][ /\ Len(bufferRegistry_') <= cMaxDataBufferCount
        /\ (/\ Len(bufferRegistry_) = cMaxDataBufferCount
            /\ << bufferRegistry_, readerError >>' # << bufferRegistry_, readerError >>)
              => /\ readerError' = "CapacityExceeded"
                 /\ bufferRegistry_' = bufferRegistry_ ]_vars

\* The step constructs a publisher or a subscriber.
EndpointConstructed == lastOp'.op \in {"publisher", "subscriber"}

\* C24: once the type id (the type name) of the payload type is set, no
\* step changes it; constructing an endpoint with the same id and name, or
\* with none, succeeds and leaves both as they were; constructing one with
\* another id or another name fails.
C24_TypeKeyImmutable ==
    [][ /\ typeKey.typeId # 0 => typeKey'.typeId = typeKey.typeId
        /\ typeKey.typeName # 0 => typeKey'.typeName = typeKey.typeName
        /\ EndpointConstructed =>
              LET id == lastOp'.arg[1]
                  name == lastOp'.arg[2]
                  idClash == id # 0 /\ typeKey.typeId # 0 /\ id # typeKey.typeId
                  nameClash == name # 0 /\ typeKey.typeName # 0 /\ name # typeKey.typeName
              IN /\ (idClash \/ nameClash) => error' \in {"TypeIdConflict", "TypeNameConflict"}
                 /\ (typeKey.typeId # 0 /\ typeKey.typeName # 0
                         /\ id \in {0, typeKey.typeId} /\ name \in {0, typeKey.typeName})
                       => (error' = "none" /\ typeKey' = typeKey) ]_vars

\* C24 witness: with id and name set, an endpoint was constructed with
\* another id and the construction failed, the stored id being the old one.
C24_Witness ==
    /\ error = "TypeIdConflict"
    /\ lastOp.op \in {"publisher", "subscriber"}
    /\ typeKey.typeId # 0
    /\ typeKey.typeName # 0
    /\ lastOp.arg[1] \notin {0, typeKey.typeId}
    /\ state_.subscriptionCount >= 1

\* C25: the bytes one write of a value of type T puts on the stream are, in
\* this order and with nothing else: the prefix magic when a prefix is
\* configured, a header of typeId of T and dataBytes = sizeof(T), the
\* sizeof(T) bytes of the value, and the postfix delimiter.
C25_FrameLayout ==
    [][ written' # written =>
          LET f == written'[Len(written')]
              emitted == SubSeq(wire', Len(wire) + 1, Len(wire'))
              p == IF hasPrefix THEN PrefixBytes ELSE 0
              n == SizeOf(f.type)
          IN /\ Len(written') = Len(written) + 1
             /\ SubSeq(wire', 1, Len(wire)) = wire
             /\ Len(emitted) = p + HeaderBytes + n + PostfixBytes
             /\ hasPrefix => SubSeq(emitted, 1, p) = << 83, 85, 66, 48 >>
             /\ BytesToHeader(SubSeq(emitted, p + 1, p + HeaderBytes))
                   = [typeId |-> typeIdOf[f.type], dataBytes |-> n]
             /\ SubSeq(emitted, p + HeaderBytes + 1, p + HeaderBytes + n) = f.value
             /\ emitted[Len(emitted)] = 10 ]_vars

\* C25 witness: with a prefix configured, a value of each type has been
\* written and all their bytes are on the stream.
C25_Witness ==
    /\ hasPrefix
    /\ Len(written) = 2
    /\ written[1].type = "A"
    /\ written[2].type = "B"
    /\ Len(wire) = (2 * (PrefixBytes + HeaderBytes + PostfixBytes)) + SizeOf("A") + SizeOf("B")

\* C26: a read call that signals the completion of a frame of type T makes,
\* within that call, one publish of the bound buffer's value on the broker
\* of T: the receive calls added are one for each subscriber of T
\* registered then, in registration order, each with that value; a step
\* that signals no completion adds no receive call.
C26_NotificationPublishes ==
    [][ IF notified' # notified
        THEN LET n == Len(notified)
                 e == notified'[n + 1]
                 subs == Registered(stateOf[e.type])
             IN /\ Len(notified') = n + 1
                /\ lastRead'.completed = 1
                /\ e.value = buffer_'[e.type]
                /\ stateOf' = stateOf
                /\ Len(delivered') = Len(delivered) + Len(subs)
                /\ SubSeq(delivered', 1, Len(delivered)) = delivered
                /\ \A k \in 1..Len(subs) :
                      delivered'[Len(delivered) + k]
                          = [type |-> e.type, subscriber |-> subs[k], value |-> e.value]
        ELSE delivered' = delivered ]_vars

\* C26 witness: a frame of type B was completed while subscriber 2 and then
\* subscriber 1 were registered for B and a subscriber for A, and exactly
\* those two received its value, in that order.
C26_Witness ==
    /\ Len(notified) = 1
    /\ notified[1].type = "B"
    /\ stateOf["A"].subscriptionCount = 1
    /\ Registered(stateOf["B"]) = << 2, 1 >>
    /\ delivered = << [type |-> "B", subscriber |-> 2, value |-> notified[1].value],
                      [type |-> "B", subscriber |-> 1, value |-> notified[1].value] >>

\* C27: a subscriber construction, subscriber destruction or publish of
\* payload type T leaves the table of every other payload type as it was
\* and makes receive calls on subscribers of T only (a publish: one on each
\* subscriber in the table of T), also when the publish goes through
\* sub0::publish of an object with endpoints of both types.
C27_TypesIndependent ==
    [][ LET T == lastOp'.type
            added == SubSeq(delivered', Len(delivered) + 1, Len(delivered'))
        IN /\ \A U \in Types \ {T} : stateOf'[U] = stateOf[U]
           /\ SubSeq(delivered', 1, Len(delivered)) = delivered
           /\ \A k \in 1..Len(added) :
                 /\ added[k].type = T
                 /\ added[k].subscriber \in SeqToSet(Registered(stateOf[T]))
           /\ lastOp'.op = "publish" => Len(added) = stateOf[T].subscriptionCount
           /\ lastOp'.op # "publish" => added = << >> ]_vars

\* C27 witness: with subscribers 1 and 2 in the table of A and subscriber 2
\* alone in the table of B, a value of A was published and the two
\* subscribers of A received it.
C27_Witness ==
    /\ lastOp.op = "publish"
    /\ lastOp.type = "A"
    /\ Registered(stateOf["A"]) = << 1, 2 >>
    /\ Registered(stateOf["B"]) = << 2 >>
    /\ Len(delivered) = 2
    /\ delivered[1] = [type |-> "A", subscriber |-> 1, value |-> lastOp.arg]
    /\ delivered[2] = [type |-> "A", subscriber |-> 2, value |-> lastOp.arg]

\* The stage that follows a stage in the cycle of the reader.
StageAfter(state) ==
    CASE state = "Prefix" -> "Header"
      [] state = "Header" -> "Data"
      [] state = "Data" -> "Postfix"
      [] state = "Postfix" -> IF hasPrefix THEN "Prefix" ELSE "Header"

\* C28: a step that changes the stage of the reader moves it to the stage
\* that follows in Prefix, Header, Data, Postfix and back to Prefix (with a
\* prefix configured) or Header (without); the step that leaves Postfix
\* signals one completion, and no other step signals one.
C28_StageOrder ==
    [][ /\ reader'.state_ # reader.state_ => reader'.state_ = StageAfter(reader.state_)
        /\ (reader.state_ = "Postfix" /\ reader'.state_ # "Postfix")
              => Len(notified') = Len(notified) + 1
        /\ notified' # notified
              => (reader.state_ = "Postfix" /\ reader'.state_ # "Postfix") ]_vars

\* C28 witness: without prefix, the reader is in the Header stage again
\* after two full cycles, the last step having left Postfix.
C28_Witness ==
    /\ ~hasPrefix
    /\ reader.state_ = "Header"
    /\ Len(notified) = 2
    /\ lastRead.completed = 1
    /\ notified[1].type # notified[2].type

\* C29: a read call signals at most one completion; when the source held
\* two or more complete frames and the call completed one, the bytes taken
\* from the source are those of the completed frames and no more.
C29_OneFramePerRead ==
    /\ lastRead.completed <= 1
    /\ (lastRead.burst /\ lastRead.completed = 1)
          => (Consumed = FrameBytes(Len(notified)) /\ Len(wire) > 0)

\* C29 witness: a read call that found two complete frames in the source
\* has completed the first; the second is still in the source.
C29_Witness ==
    /\ lastRead.burst
    /\ lastRead.completed = 1
    /\ lastRead.result
    /\ Len(notified) = 1
    /\ Len(written) = 2
    /\ wire = FramesToBytes(<< written[2] >>)

\* C30: when a publish call returns, no subscriber that a receive callback
\* of that call registered has got a receive call in it.
C30_AddedNotInvoked ==
    pc = "done" => \A s \in addedNow : ReceiveCallsOn(s) = 0

\* C31: a step stores bytes into the buffer of a payload type only in the
\* Data stage and only if that buffer is registered under the header just
\* parsed (its type id and length); the buffers of the other types keep
\* their content; and the notifier of a completion is the one registered in
\* the same entry as that buffer.
C31_OnlyBoundBuffer ==
    [][ /\ \A T \in Types :
              buffer_'[T] # buffer_[T] =>
                 /\ reader.state_ = "Data"
                 /\ \E i \in 1..Len(bufferRegistry_) :
                       /\ bufferRegistry_[i].first = header_
                       /\ bufferRegistry_[i].second.buffer = DataPtr(T)
                 /\ \A U \in Types \ {T} : buffer_'[U] = buffer_[U]
        /\ notified' # notified =>
              \E i \in 1..Len(bufferRegistry_) :
                 /\ bufferRegistry_[i].first = header_
                 /\ bufferRegistry_[i].second.buffer = DataPtr(notified'[Len(notified')].type)
                 /\ bufferRegistry_[i].second.bufferPublisher = notified'[Len(notified')].type ]_vars

\* C31 witness: with the buffers of both types registered under different
\* type ids, a frame of B was parsed and completed; the buffer of B holds
\* its payload, the buffer of A is as it was constructed.
C31_Witness ==
    /\ Len(bufferRegistry_) = 2
    /\ typeIdOf["A"] # typeIdOf["B"]
    /\ Len(notified) = 1
    /\ notified[1].type = "B"
    /\ buffer_["B"] = << 7, 7 >>
    /\ buffer_["A"] = << 0 >>

\* The number of bytes of the stream that make up the stage the reader is
\* in: sizeof(Prefix_t) (nothing for void), sizeof(Header_t), the dataBytes
\* of the header parsed, sizeof(Postfix_t).
StageSize ==
    CASE reader.state_ = "Prefix" -> IF hasPrefix THEN PrefixBytes ELSE 0
      [] reader.state_ = "Header" -> HeaderBytes
      [] reader.state_ = "Data" -> header_.dataBytes
      [] reader.state_ = "Postfix" -> PostfixBytes

\* C32: in every state of a running reader the bytes still needed for the
\* current stage are between 0 and the size of the stage, and the bytes
\* taken for the stage plus the bytes still needed are the size of the
\* stage.
C32_StageAccounting ==
    readerError = "none" =>
        /\ reader.currentBuffer_.bufferSize \in 0..StageSize
        /\ reader.currentBuffer_.buffer.offset + reader.currentBuffer_.bufferSize = StageSize

\* C33: every value the reader has published is, byte for byte, the
\* payload of the frame whose completion published it: the n-th
\* notification carries the type and all the bytes of the n-th frame
\* written.
C33_WholePayloadPublished ==
    \A n \in 1..Len(notified) :
        /\ n <= Len(written)
        /\ notified[n].type = written[n].type
        /\ Len(notified[n].value) = SizeOf(written[n].type)
        /\ notified[n].value = written[n].value

\* C33 witness: two frames of the two-byte type with different payloads,
\* each differing from what the buffer held before, were published.
C33_Witness ==
    /\ Len(notified) = 2
    /\ notified[1] = [type |-> "B", value |-> << 7, 0 >>]
    /\ notified[2] = [type |-> "B", value |-> << 0, 7 >>]

\* C34: in every registry reached by inserts, entries sharing a type id
\* included, the lookup of the header of a registered entry returns the
\* buffer, length and notifier of an entry with that very header (type id
\* and length).
C34_FindAmongEqualIds ==
    \A i \in 1..Len(bufferRegistry_) :
        \E j \in 1..Len(bufferRegistry_) :
            /\ bufferRegistry_[j].first = bufferRegistry_[i].first
            /\ findBufferPublisher(bufferRegistry_, bufferRegistry_[i].first)
                  = bufferRegistry_[j].second

\* C35: a step that changes the registry adds exactly one entry, that of a
\* buffer not registered before: the entries there before are all still
\* there, unchanged and in the same order, and the new entry comes behind
\* every entry of the same type id.
C35_InsertAddsOne ==
    [][ bufferRegistry_' # bufferRegistry_ =>
          /\ Len(bufferRegistry_') = Len(bufferRegistry_) + 1
          /\ \E p \in 1..Len(bufferRegistry_') :
                /\ DeleteAt(bufferRegistry_', p) = bufferRegistry_
                /\ \A i \in 1..Len(bufferRegistry_) :
                      bufferRegistry_[i].second.buffer # bufferRegistry_'[p].second.buffer
                /\ \A i \in 1..Len(bufferRegistry_') :
                      bufferRegistry_'[i].first.typeId = bufferRegistry_'[p].first.typeId
                          => i <= p ]_vars

\* C35 witness: three buffers were registered under one type id, D first
\* and A last, and a fourth under a smaller one; the registry has the
\* fourth in front and the three in the order of their registration.
C35_Witness ==
    /\ Len(bufferRegistry_) = 4
    /\ bufferRegistry_[1].first.typeId < bufferRegistry_[2].first.typeId
    /\ bufferRegistry_[2].first.typeId = bufferRegistry_[4].first.typeId
    /\ bufferRegistry_[1].second.bufferPublisher = "C"
    /\ bufferRegistry_[2].second.bufferPublisher = "D"
    /\ bufferRegistry_[3].second.bufferPublisher = "B"
    /\ bufferRegistry_[4].second.bufferPublisher = "A"

\* C36: in the SubscribeTo / PublishTo variant, a publish call makes no
\* receive call on a subscriber destroyed before it and goes through no
\* pointer to one.
C36_DestroyedNotCalledTo ==
    lastOp.op = "publishTo" =>
        /\ error = "none"
        /\ \A s \in deadAtStart : ReceiveCallsOn(s) = 0

\* C37: every update() call of PublishStream returns: whenever update() is
\* running, it is later back at its caller (or a failed assertion has ended
\* the process).
C37_UpdateReturns ==
    (publishStream.pc # "idle" /\ publishStream.err = "none")
        ~> (publishStream.pc = "idle" \/ publishStream.err # "none")

====
